---- MODULE Spec2Model ----
(***************************************************************************)
(* State-machine model of the soundscape "dreamy" DSP core:                *)
(*   src/src/echo_canceller.rs  EchoCanceller (NLMS), VoiceActivityDetector *)
(*   src/src/granular.rs        GrainBuffer, Grain, GranularEngine          *)
(*   src/src/effects.rs         OnePole, chorus, Comb, AllPass, Reverb      *)
(*   src/src/main.rs            dreamy capture / playback callbacks         *)
(*                                                                         *)
(* f32 values are modelled in fixed point: a sample or coefficient v is    *)
(* the integer v * Scale, products are rescaled and truncated toward 0.    *)
(* All sample values are finite; f32 infinities and NaN produced by        *)
(* overflow are outside the model (the one NaN the code produces from      *)
(* in-range inputs, 0.0/0.0 in Grain::window, is modelled by NaN below).   *)
(***************************************************************************)
EXTENDS Integers, Sequences, FiniteSets, TLC

(* ----------------------------- bounds --------------------------------- *)
\* longest adaptive filter built (SpecAEC, and the callbacks' canceller)
MaxFilterLen == 2
\* most EchoCanceller calls (process/reset/setters) in one SpecAEC run
MaxAecCalls == 4
\* longest all-zero prefix fed to the detector in SpecVAD
MaxSilence == 4
\* longest constant run fed to the detector after the onset in SpecVAD
MaxTone == 104
\* largest GrainBuffer capacity built in SpecBuf
MaxCapacity == 3
\* read positions tried in SpecBuf are k and k + 0.5 for k in -MaxReadPos..MaxReadPos
MaxReadPos == 7
\* largest max_grains given to GranularEngine::new in SpecEngine
MaxGrains == 2
\* most write_input/process calls in one SpecEngine run
MaxEngCalls == 4
\* most write_input/process call pairs in one SpecTwin run
MaxTwinCalls == 3
\* capacity of the capture queue in a run of the callbacks (8192 in dreamy)
QueueCap == 2
\* most input frames the capture callback handles in one run
MaxCaptures == 4
\* most output frames the playback callback handles in one run
MaxFrames == 4
\* longest adaptive filter built in SpecRing
MaxRingLen == 3
\* most samples fed to an EffectsChain on its own
MaxFxSamples == 40

(* ------------------------- fixed-point f32 ----------------------------- *)
\* 1.0 in fixed point
Scale == 1000

Abs(x) == IF x < 0 THEN -x ELSE x

\* integer quotient truncated toward zero (an `as` cast, a rounded quotient)
TruncDiv(a, b) ==
    IF b = 0 THEN 0
    ELSE IF (a >= 0) = (b > 0) THEN Abs(a) \div Abs(b) ELSE -(Abs(a) \div Abs(b))

\* f32 product of two fixed-point values
Mul(a, b) == TruncDiv(a * b, Scale)

\* sample values offered to the components
Samples == {-500, 0, 500}

(* ----------------------------- state ---------------------------------- *)
VARIABLES
    aec,        \* EchoCanceller fields
    aecLast,    \* the last EchoCanceller call: operation, arguments, result
    aecZeroRef, \* every reference passed to process since construction was 0
    aecReset,   \* reset bookkeeping: no process call since the last reset
    aecCalls    \* calls made so far

VARIABLES
    vad,        \* VoiceActivityDetector fields
    vadLast,    \* the last VoiceActivityDetector::process call: sample, result
    vadRun      \* SpecVAD input bookkeeping: zeros fed, tone samples fed, detections

VARIABLES
    gbuf,       \* a GrainBuffer on its own
    gbufLast    \* the last GrainBuffer call: operation, position, indices read, result

VARIABLES
    engine,     \* GranularEngine fields
    engLast,    \* the last GranularEngine call: operation, result, spawn bookkeeping
    engRun      \* calls made, whether every sample written was 0, whether it panicked

VARIABLES
    twin,       \* a second GranularEngine, built and driven like the first
    twinLast    \* the last call on the second engine

VARIABLES
    queue,      \* the bounded channel between the capture and playback callbacks
    effects,    \* EffectsChain fields
    pipe,       \* stream configuration, previous_speaker_output, frame counts, history
    pipeLast    \* the last callback frame: what it took, passed on and wrote

VARIABLES
    fxRun       \* an EffectsChain on its own: the input sequence, samples fed, last output

aecVars == <<aec, aecLast, aecZeroRef, aecReset, aecCalls>>
vadVars == <<vad, vadLast, vadRun>>
bufVars == <<gbuf, gbufLast>>
engVars == <<engine, engLast, engRun>>
twinVars == <<twin, twinLast>>
pipeVars == <<queue, effects, pipe, pipeLast>>
fxVars == <<fxRun>>
vars == <<aecVars, vadVars, bufVars, engVars, twinVars, pipeVars, fxVars>>

\* what the calls on one component leave alone
notAec == <<vadVars, bufVars, engVars, twinVars, pipeVars, fxVars>>
notVad == <<aecVars, bufVars, engVars, twinVars, pipeVars, fxVars>>
notBuf == <<aecVars, vadVars, engVars, twinVars, pipeVars, fxVars>>
notEng == <<aecVars, vadVars, bufVars, twinVars, pipeVars, fxVars>>
notTwin == <<aecVars, vadVars, bufVars, pipeVars, fxVars>>
\* the callbacks use the components, not the bookkeeping of the component runs
notPipe == <<aecLast, aecZeroRef, aecReset, aecCalls, vadLast, vadRun,
             bufVars, engLast, engRun, twinVars, fxVars>>
\* a run of the effects chain on its own
notFx == <<aecVars, vadVars, bufVars, engVars, twinVars, queue, pipe, pipeLast>>

(* ======================= echo_canceller.rs ============================ *)

\* step sizes given to EchoCanceller::new (documented range 0.1-0.9; 0.5 in main.rs)
StepSizes == {0, 500, 1000}

\* regularization: 1e-6, in units of 1/Scale^2 (the unit of reference power)
Regularization == 1

Zeros(n) == [i \in 0..(n - 1) |-> 0]

\* EchoCanceller::new
EchoCanceller_new(filter_length, step_size) ==
    [ filter_weights     |-> Zeros(filter_length),
      reference_buffer   |-> Zeros(filter_length),
      buffer_pos         |-> 0,
      step_size          |-> step_size,
      adaptation_enabled |-> TRUE ]

\* filter_weights.len()
FilterLen(e) == Cardinality(DOMAIN e.filter_weights)

\* a faulty pairing: tap i with the ring entry i places after the written one
RefIdx_Forward(e, i) == (e.buffer_pos + i) % FilterLen(e)

\* the ring index paired with tap i: (buffer_pos + filter_len - i) % filter_len
RefIdx(e, i) == (e.buffer_pos + FilterLen(e) - i) % FilterLen(e)

RECURSIVE EchoSum(_, _)
EchoSum(e, n) ==
    IF n = 0 THEN 0
    ELSE EchoSum(e, n - 1)
         + Mul(e.filter_weights[n - 1], e.reference_buffer[RefIdx(e, n - 1)])

\* EchoCanceller::compute_echo_estimate
compute_echo_estimate(e) == EchoSum(e, FilterLen(e))

RECURSIVE PowerSum(_, _)
PowerSum(e, n) ==
    IF n = 0 THEN 0
    ELSE PowerSum(e, n - 1)
         + e.reference_buffer[RefIdx(e, n - 1)] * e.reference_buffer[RefIdx(e, n - 1)]

\* a faulty weight update: the LMS step without the reference-sample factor
update_filter_weights_NoRef(e, error) ==
    [e EXCEPT !.filter_weights =
        [i \in DOMAIN e.filter_weights |->
            e.filter_weights[i] + Mul(e.step_size, error)]]

\* EchoCanceller::update_filter_weights.  power is in units of 1/Scale^2, so
\* w[i] += step/(power + eps) * error * x[i] is the single quotient below
\* (evaluated as one quotient so that no intermediate leaves the integer range)
update_filter_weights(e, error) ==
    LET power == PowerSum(e, FilterLen(e))
    IN  [e EXCEPT !.filter_weights =
            [i \in DOMAIN e.filter_weights |->
                e.filter_weights[i]
                + TruncDiv(e.step_size * error * e.reference_buffer[RefIdx(e, i)],
                           power + Regularization)]]

\* EchoCanceller::process: the canceller after the call, and the value returned
EchoCanceller_process(e, mic_input, speaker_output) ==
    LET stored == [e EXCEPT !.reference_buffer[e.buffer_pos] = speaker_output]
        error_signal == mic_input - compute_echo_estimate(stored)
        adapted == IF stored.adaptation_enabled
                   THEN update_filter_weights(stored, error_signal)
                   ELSE stored
    IN  [ aec |-> [adapted EXCEPT !.buffer_pos = (adapted.buffer_pos + 1) % FilterLen(adapted)],
          out |-> error_signal ]

\* `self.reference_buffer[self.buffer_pos] = speaker_output` is out of bounds:
\* process panics at its first statement
process_panics(e) == e.buffer_pos >= FilterLen(e)

\* a faulty reset that clears the reference ring and keeps the learned weights
EchoCanceller_reset_KeepWeights(e) ==
    [e EXCEPT !.reference_buffer = Zeros(FilterLen(e))]

\* EchoCanceller::reset
EchoCanceller_reset(e) ==
    [e EXCEPT !.filter_weights = Zeros(FilterLen(e)),
              !.reference_buffer = Zeros(FilterLen(e))]

\* a faulty setter: the flag is left as it was
set_adaptation_enabled_Keep(e, enabled) == e

\* EchoCanceller::set_adaptation_enabled
set_adaptation_enabled(e, enabled) == [e EXCEPT !.adaptation_enabled = enabled]

\* EchoCanceller::set_step_size: step_size.clamp(0.0, 1.0)
set_step_size(e, step_size) ==
    [e EXCEPT !.step_size = IF step_size < 0 THEN 0
                            ELSE IF step_size > Scale THEN Scale ELSE step_size]

AllZero(f) == \A i \in DOMAIN f : f[i] = 0

(* ---- VoiceActivityDetector ------------------------------------------- *)
\* 1.0 for the smoothing coefficients attack and release
CoeffScale == 10000
\* smoothed energy and threshold are in units of 1/EnergyScale
EnergyScale == 100000

\* exp(-x) for x = X / CoeffScale in [0, 1], by its power series
ExpNeg(X) ==
    LET t1 == X
        t2 == (t1 * X) \div (2 * CoeffScale)
        t3 == (t2 * X) \div (3 * CoeffScale)
        t4 == (t3 * X) \div (4 * CoeffScale)
        t5 == (t4 * X) \div (5 * CoeffScale)
        t6 == (t5 * X) \div (6 * CoeffScale)
    IN  CoeffScale - t1 + t2 - t3 + t4 - t5 + t6

\* 1 / (sample_rate * time) for a time constant of time_ms, rounded
InvSamples(sample_rate, time_ms) ==
    (CoeffScale * 1000 + (sample_rate * time_ms) \div 2) \div (sample_rate * time_ms)

\* a faulty constructor: the time constants taken as 1 s and 10 s
VoiceActivityDetector_new_Slow(sample_rate, threshold) ==
    [ threshold |-> threshold,
      energy    |-> 0,
      attack    |-> ExpNeg(InvSamples(sample_rate, 1000)),
      release   |-> ExpNeg(InvSamples(sample_rate, 10000)) ]

\* VoiceActivityDetector::new: attack_time = 0.010 s, release_time = 0.100 s
VoiceActivityDetector_new(sample_rate, threshold) ==
    [ threshold |-> threshold,
      energy    |-> 0,
      attack    |-> ExpNeg(InvSamples(sample_rate, 10)),
      release   |-> ExpNeg(InvSamples(sample_rate, 100)) ]

\* VoiceActivityDetector::process: the detector after the call, and the result
VoiceActivityDetector_process(v, sample) ==
    LET instant_energy == (sample * sample) \div ((Scale * Scale) \div EnergyScale)
        energy ==
            IF instant_energy > v.energy
            THEN (v.attack * v.energy) \div CoeffScale
                 + ((CoeffScale - v.attack) * instant_energy) \div CoeffScale
            ELSE (v.release * v.energy) \div CoeffScale
                 + ((CoeffScale - v.release) * instant_energy) \div CoeffScale
    IN  [ vad |-> [v EXCEPT !.energy = energy],
          out |-> (energy > v.threshold) ]

\* VoiceActivityDetector::set_threshold
set_threshold(v, threshold) == [v EXCEPT !.threshold = threshold]

(* ---- SpecAEC: one EchoCanceller driven by arbitrary calls ------------- *)

AecStart ==
    /\ \E L \in 1..MaxFilterLen, s \in StepSizes : aec = EchoCanceller_new(L, s)
    /\ aecLast = [op |-> "new", mic |-> 0, ref |-> 0, out |-> 0,
                  adapt |-> TRUE, afterReset |-> FALSE, learned |-> FALSE]
    /\ aecZeroRef = TRUE
    /\ aecReset = [pending |-> FALSE, learned |-> FALSE]
    /\ aecCalls = 0

AecProcess ==
    /\ aecCalls < MaxAecCalls
    /\ UNCHANGED notAec
    /\ \E mic \in Samples, ref \in Samples :
         LET r == EchoCanceller_process(aec, mic, ref)
         IN  /\ aec' = r.aec
             /\ aecLast' = [op |-> "process", mic |-> mic, ref |-> ref, out |-> r.out,
                            adapt |-> aec.adaptation_enabled,
                            afterReset |-> aecReset.pending,
                            learned |-> aecReset.learned]
             /\ aecZeroRef' = (aecZeroRef /\ ref = 0)
    /\ aecReset' = [pending |-> FALSE, learned |-> FALSE]
    /\ aecCalls' = aecCalls + 1

AecResetCall ==
    /\ aecCalls < MaxAecCalls
    /\ UNCHANGED notAec
    /\ aec' = EchoCanceller_reset(aec)
    /\ aecLast' = [aecLast EXCEPT !.op = "reset"]
    /\ aecReset' = [pending |-> TRUE,
                    learned |-> (aecReset.learned
                                 \/ (~AllZero(aec.filter_weights)
                                     /\ ~AllZero(aec.reference_buffer)
                                     /\ aec.buffer_pos # 0))]
    /\ aecCalls' = aecCalls + 1
    /\ UNCHANGED aecZeroRef

AecSetAdaptation ==
    /\ aecCalls < MaxAecCalls
    /\ UNCHANGED notAec
    /\ \E b \in BOOLEAN : aec' = set_adaptation_enabled(aec, b)
    /\ aecLast' = [aecLast EXCEPT !.op = "set_adaptation_enabled"]
    /\ aecCalls' = aecCalls + 1
    /\ UNCHANGED <<aecZeroRef, aecReset>>

AecSetStepSize ==
    /\ aecCalls < MaxAecCalls
    /\ UNCHANGED notAec
    /\ \E s \in {-500, 500, 1500} : aec' = set_step_size(aec, s)
    /\ aecLast' = [aecLast EXCEPT !.op = "set_step_size"]
    /\ aecCalls' = aecCalls + 1
    /\ UNCHANGED <<aecZeroRef, aecReset>>

(* ============================ granular.rs ============================== *)

\* GrainBuffer::new
GrainBuffer_new(capacity_samples) ==
    [ buffer    |-> Zeros(capacity_samples),
      write_pos |-> 0,
      capacity  |-> capacity_samples ]

\* GrainBuffer::write
GrainBuffer_write(b, sample) ==
    [b EXCEPT !.buffer[b.write_pos] = sample,
              !.write_pos = (b.write_pos + 1) % b.capacity]

\* a faulty wrap: the truncated remainder `%` (sign of the dividend), which
\* the `as usize` cast then saturates at 0
ReadPos_Rem(b, position) ==
    LET r == Abs(position) % (b.capacity * Scale)
    IN  IF position < 0 THEN -r ELSE r

\* position.rem_euclid(capacity as f32), a position in [0, capacity)
ReadPos(b, position) == position % (b.capacity * Scale)

\* idx = pos as usize (a negative float casts to 0)
ReadIdx(b, position) ==
    IF ReadPos(b, position) < 0 THEN 0 ELSE ReadPos(b, position) \div Scale

\* the neighbour (idx + 1) % capacity
ReadIdx2(b, position) == (ReadIdx(b, position) + 1) % b.capacity

\* GrainBuffer::read: linear interpolation between idx and its neighbour
GrainBuffer_read(b, position) ==
    LET idx == ReadIdx(b, position)
        frac == ReadPos(b, position) - idx * Scale
        sample1 == b.buffer[idx]
        sample2 == b.buffer[ReadIdx2(b, position)]
    IN  sample1 + Mul(sample2 - sample1, frac)

(* ---- f32 helpers of the grain code ----------------------------------- *)

\* the f32 NaN that 0.0 / 0.0 yields (Grain::window with length 0)
NaN == 999999999

\* f32 product, addition and quotient with NaN propagation
FMul(a, b) == IF a = NaN \/ b = NaN THEN NaN ELSE Mul(a, b)
FAdd(a, b) == IF a = NaN \/ b = NaN THEN NaN ELSE a + b
FDiv(a, b) == IF a = NaN \/ b = NaN THEN NaN ELSE TruncDiv(a * Scale, b)

RECURSIVE Newton(_, _)
\* integer square root of n by Newton's iteration from an x above it
Newton(n, x) ==
    LET y == (x + n \div x) \div 2
    IN  IF y >= x THEN x ELSE Newton(n, y)

\* (k as f32).sqrt() in fixed point, for a count k >= 1
SqrtOf(k) == Newton(k * Scale * Scale, k * Scale)

\* sin(pi * x) for x in [0, 1) by Bhaskara's rational approximation
SinPi(x) ==
    LET p == Mul(x, Scale - x)
    IN  TruncDiv(16 * p * Scale, 5 * Scale - 4 * p)

\* 0.5 * (1 - cos(2 pi phase)), which is sin(pi phase)^2
Hann(phase) == Mul(SinPi(phase), SinPi(phase))

\* values of a uniform draw from [0, 1): the low end, the middle, the top
UnitDraws == {0, 500, 999}

\* Range<f32>::is_empty: random_range panics on an empty range
RangeEmpty(lo, hi) == ~(lo < hi)

\* rng.random_range(lo..hi) for the uniform draw u: lo + u * (hi - lo)
random_range(lo, hi, u) == lo + Mul(u, hi - lo)

(* ---- Grain ------------------------------------------------------------ *)

\* Grain::new
Grain_new(start_pos, length, pitch) ==
    [ start_pos   |-> start_pos,
      current_pos |-> 0,
      length      |-> length,
      pitch       |-> pitch,
      amplitude   |-> Scale,
      pan         |-> Scale \div 2,
      active      |-> TRUE ]

\* Grain::window; current_pos counts whole samples
Grain_window(gr) ==
    IF ~gr.active THEN 0
    ELSE IF gr.length = 0
         THEN (IF gr.current_pos = 0 THEN NaN ELSE 0)
         ELSE LET phase == TruncDiv(gr.current_pos * Scale, gr.length)
              IN  IF phase >= Scale THEN 0 ELSE Hann(phase)

\* the position a grain reads at: start_pos + current_pos * pitch
Grain_read_pos(gr) == gr.start_pos + gr.current_pos * gr.pitch

\* a faulty grain: the envelope added to the sample instead of multiplying it
Grain_sample_Add(gr, buffer) ==
    FMul(FAdd(GrainBuffer_read(buffer, Grain_read_pos(gr)), Grain_window(gr)),
         gr.amplitude)

\* the sample a grain emits: buffer.read(read_pos) * window * amplitude
Grain_sample(gr, buffer) ==
    FMul(FMul(GrainBuffer_read(buffer, Grain_read_pos(gr)), Grain_window(gr)),
         gr.amplitude)

\* a faulty grain: deactivated one call late, `>` in place of `>=`
Grain_process_Late(gr, buffer) ==
    IF ~gr.active THEN [grain |-> gr, sample |-> 0]
    ELSE [ grain  |-> [gr EXCEPT !.current_pos = gr.current_pos + 1,
                                 !.active = (gr.current_pos + 1 <= gr.length)],
           sample |-> Grain_sample(gr, buffer) ]

\* Grain::process: the grain after the call, and the sample returned
Grain_process(gr, buffer) ==
    IF ~gr.active THEN [grain |-> gr, sample |-> 0]
    ELSE [ grain  |-> [gr EXCEPT !.current_pos = gr.current_pos + 1,
                                 !.active = (gr.current_pos + 1 < gr.length)],
           sample |-> Grain_sample(gr, buffer) ]

(* ---- GranularEngine --------------------------------------------------- *)

\* GranularEngine::new: sample_rate in Hz, buffer_size_ms in ms; the five
\* public parameters start at their defaults and are assigned afterwards.
\* seed is what StdRng::from_rng(&mut rand::rng()) takes from the thread's
\* entropy-seeded generator: new() has no parameter for it.  The stream of a
\* StdRng is a function of its seed; the values it yields are inputs of the
\* process actions, equal for equal seeds at the same place of the stream.
GranularEngine_new(sample_rate, buffer_size_ms, max_grains, seed) ==
    [ buffer                |-> GrainBuffer_new(TruncDiv(buffer_size_ms * sample_rate, 1000)),
      grains                |-> << >>,
      max_grains            |-> max_grains,
      sample_rate           |-> sample_rate,
      grain_size_ms         |-> 100,
      grain_density         |-> 20,
      pitch_shift           |-> Scale,
      pitch_randomness      |-> 50,
      time_randomness       |-> 300,
      time_until_next_grain |-> 0,
      rng                   |-> seed ]

\* DreamyPreset::configure_engine
configure_engine(g) ==
    [g EXCEPT !.grain_size_ms = 120,
              !.grain_density = 15,
              !.pitch_shift = 920,
              !.pitch_randomness = 120,
              !.time_randomness = 600]

\* GranularEngine::write_input
write_input(g, sample) == [g EXCEPT !.buffer = GrainBuffer_write(g.buffer, sample)]

\* grain_size_samples = (grain_size_ms * sample_rate / 1000.0) as usize
grain_size_samples(g) == TruncDiv(g.grain_size_ms * g.sample_rate, 1000)

\* GranularEngine::spawn_grain with the draws u_look and u_pitch: the grain pushed
spawn_grain(g, u_look, u_pitch) ==
    LET lookback == random_range(0, Scale \div 2, u_look)
        start_pos == g.buffer.write_pos * Scale - Mul(lookback, g.buffer.capacity * Scale)
        pitch_variation == random_range(-g.pitch_randomness, g.pitch_randomness, u_pitch)
        pitch == Mul(g.pitch_shift, Scale + pitch_variation)
    IN  Grain_new(start_pos, grain_size_samples(g), pitch)

\* a faulty spawn condition: `<=` lets one grain past the cap
should_spawn_Le(g, timer) == timer <= 0 /\ Len(g.grains) <= g.max_grains

\* the spawn condition: time_until_next_grain <= 0.0 && grains.len() < max_grains
should_spawn(g, timer) == timer <= 0 /\ Len(g.grains) < g.max_grains

\* interval = sample_rate / grain_density
spawn_interval(g) == TruncDiv(g.sample_rate * Scale, g.grain_density)

\* Op applied to the value of v, computed once
Bind(v, Op(_)) == CHOOSE r \in {Op(x) : x \in {v}} : TRUE

RECURSIVE SumSamples(_, _)
\* output += grain.process(..) over the first n grains
SumSamples(results, n) ==
    IF n = 0 THEN 0 ELSE FAdd(SumSamples(results, n - 1), results[n].sample)

\* the `for grain in &mut self.grains` loop: every active grain is processed
\* once; the grains after it, the sum of their samples, the active count
ProcessGrains(grains, buffer) ==
    Bind([i \in 1..Len(grains) |-> Grain_process(grains[i], buffer)],
         LAMBDA results :
            [ grains       |-> [i \in 1..Len(grains) |-> results[i].grain],
              output       |-> SumSamples(results, Len(grains)),
              active_count |-> Cardinality({i \in 1..Len(grains) : grains[i].active}) ])

\* grains.retain(|g| g.active)
Retain(grains) == SelectSeq(grains, LAMBDA gr : gr.active)

\* the mix returned: output / sqrt(active_count), or output when none is active
Normalize(output, active_count) ==
    IF active_count > 0 THEN FDiv(output, SqrtOf(active_count)) ELSE output

\* the timer reset after a spawn: interval + random_range(-randomness..randomness)
next_grain_time(g, u_time) ==
    LET interval == spawn_interval(g)
        randomness == Mul(interval, g.time_randomness)
    IN  interval + random_range(-randomness, randomness, u_time)

\* the second random_range of a spawning call is given an empty range
time_range_empty(g) ==
    LET randomness == Mul(spawn_interval(g), g.time_randomness)
    IN  RangeEmpty(-randomness, randomness)

\* the mix and compaction steps of process, on the engine after the spawn step
mix_and_compact(scheduled, due, spawn) ==
    Bind(ProcessGrains(scheduled.grains, scheduled.buffer),
         LAMBDA mixed :
            [ engine |-> [scheduled EXCEPT !.grains = Retain(mixed.grains)],
              out |-> Normalize(mixed.output, mixed.active_count),
              panic |-> FALSE, due |-> due, spawned |-> spawn,
              peak |-> Len(scheduled.grains),
              active_count |-> mixed.active_count ])

\* GranularEngine::process with the draws the rng yields in this call.
\* panic: a random_range on an empty range unwinds out of process, leaving
\* the fields as they were at that point.  peak: grains.len() after the spawn
\* step and before compaction.
GranularEngine_process(g, u_look, u_pitch, u_time) ==
    LET timer == g.time_until_next_grain - Scale
        spawn == should_spawn(g, timer)
    IN  IF ~spawn
        THEN mix_and_compact([g EXCEPT !.time_until_next_grain = timer], timer <= 0, FALSE)
        ELSE IF RangeEmpty(-g.pitch_randomness, g.pitch_randomness)
        THEN [ engine |-> [g EXCEPT !.time_until_next_grain = timer],
               out |-> 0, panic |-> TRUE, due |-> TRUE, spawned |-> FALSE,
               peak |-> Len(g.grains), active_count |-> 0 ]
        ELSE IF time_range_empty(g)
        THEN [ engine |-> [g EXCEPT !.time_until_next_grain = timer,
                                    !.grains = Append(g.grains, spawn_grain(g, u_look, u_pitch))],
               out |-> 0, panic |-> TRUE, due |-> TRUE, spawned |-> TRUE,
               peak |-> Len(g.grains) + 1, active_count |-> 0 ]
        ELSE Bind([g EXCEPT !.time_until_next_grain = next_grain_time(g, u_time),
                            !.grains = Append(g.grains, spawn_grain(g, u_look, u_pitch))],
                  LAMBDA scheduled : mix_and_compact(scheduled, TRUE, TRUE))

\* the draws a process() call can consume: the rng is read only when it spawns
DrawsFor(g) ==
    IF should_spawn(g, g.time_until_next_grain - Scale) THEN UnitDraws ELSE {0}

(* ============================= effects.rs ============================== *)

\* -x with NaN propagation
FNeg(a) == IF a = NaN THEN NaN ELSE -a

\* pi in fixed point
Pi == 3142

\* sin(x) for a phase x in [0, 2 pi]
Sin(x) ==
    IF x <= Pi THEN SinPi(TruncDiv(x * Scale, Pi))
    ELSE -SinPi(TruncDiv((x - Pi) * Scale, Pi))

\* AllPass::new
AllPass_new(delay_samples, feedback) ==
    [ buffer |-> Zeros(delay_samples), pos |-> 0, feedback |-> feedback ]

\* AllPass::process: the filter after the call, and the output
AllPass_process(a, input) ==
    LET delayed == a.buffer[a.pos]
    IN  [ allpass |-> [a EXCEPT !.buffer[a.pos] = FAdd(input, FMul(delayed, a.feedback)),
                                !.pos = (a.pos + 1) % Cardinality(DOMAIN a.buffer)],
          out |-> FAdd(FNeg(input), delayed) ]

\* Comb::new
Comb_new(delay_samples, feedback, damping) ==
    [ buffer |-> Zeros(delay_samples), pos |-> 0, feedback |-> feedback,
      damping |-> damping, filter_state |-> 0 ]

\* Comb::process: the filter after the call, and the delayed sample returned
Comb_process(c, input) ==
    LET delayed == c.buffer[c.pos]
        filter_state == FAdd(FMul(delayed, Scale - c.damping),
                             FMul(c.filter_state, c.damping))
    IN  [ comb |-> [c EXCEPT !.filter_state = filter_state,
                             !.buffer[c.pos] = FAdd(input, FMul(filter_state, c.feedback)),
                             !.pos = (c.pos + 1) % Cardinality(DOMAIN c.buffer)],
          out |-> delayed ]

\* the delay tables of Reverb::new, in samples at 44100 Hz
comb_delays == <<1557, 1617, 1491, 1422, 1277, 1356, 1188, 1116>>
allpass_delays == <<225, 556, 441, 341>>

\* scaled_delay = (delay as f32 * (sample_rate / 44100.0)) as usize
scaled_delay(delay, sample_rate) == TruncDiv(delay * sample_rate, 44100)

\* Reverb::new
Reverb_new(sample_rate, wet, dry) ==
    [ combs     |-> [i \in 1..Len(comb_delays) |->
                        Comb_new(scaled_delay(comb_delays[i], sample_rate), 840, 200)],
      allpasses |-> [i \in 1..Len(allpass_delays) |->
                        AllPass_new(scaled_delay(allpass_delays[i], sample_rate), 500)],
      wet       |-> wet,
      dry       |-> dry ]

RECURSIVE SumOuts(_, _)
\* comb_sum += comb.process(input) over the first n combs
SumOuts(results, n) ==
    IF n = 0 THEN 0 ELSE FAdd(SumOuts(results, n - 1), results[n].out)

RECURSIVE AllPassChain(_, _, _)
\* output = allpass.process(output) through the first n all-passes: the
\* filters after the calls and the output of the last
AllPassChain(allpasses, n, input) ==
    IF n = 0 THEN [allpasses |-> allpasses, out |-> input]
    ELSE Bind(AllPassChain(allpasses, n - 1, input),
              LAMBDA before :
                 Bind(AllPass_process(allpasses[n], before.out),
                      LAMBDA r : [ allpasses |-> [before.allpasses EXCEPT ![n] = r.allpass],
                                   out |-> r.out ]))

\* Reverb::process: the reverb after the call, and dry * input + wet * output
Reverb_process(rv, input) ==
    Bind([i \in 1..Len(rv.combs) |-> Comb_process(rv.combs[i], input)],
         LAMBDA results :
            Bind(AllPassChain(rv.allpasses, Len(rv.allpasses),
                              FDiv(SumOuts(results, Len(rv.combs)), Len(rv.combs) * Scale)),
                 LAMBDA chain :
                    [ reverb |-> [rv EXCEPT
                                     !.combs = [i \in 1..Len(rv.combs) |-> results[i].comb],
                                     !.allpasses = chain.allpasses],
                      out |-> FAdd(FMul(rv.dry, input), FMul(rv.wet, chain.out)) ]))

\* OnePole::calculate_coeff: omega / (1 + omega), omega = 2 pi cutoff / sample_rate
calculate_coeff(sample_rate, cutoff_hz) ==
    LET omega == TruncDiv(2 * Pi * cutoff_hz, sample_rate)
    IN  TruncDiv(omega * Scale, Scale + omega)

\* OnePole::new
OnePole_new(sample_rate, cutoff_hz) ==
    [ state |-> 0, coeff |-> calculate_coeff(sample_rate, cutoff_hz) ]

\* OnePole::process: the filter after the call; its state is the output
OnePole_process(lp, input) ==
    [lp EXCEPT !.state = FAdd(lp.state, FMul(lp.coeff, FAdd(input, FNeg(lp.state))))]

\* length of chorus_delay: vec![0.0; 4410]
ChorusLen == 4410

\* EffectsChain::new_dreamy.  chorus_delay holds the entries written so far,
\* from index 0 on; the entries of the vector after them are still 0.0
EffectsChain_new_dreamy(sample_rate) ==
    [ reverb       |-> Reverb_new(sample_rate, 400, 600),
      lowpass      |-> OnePole_new(sample_rate, 4000),
      chorus_delay |-> << >>,
      chorus_pos   |-> 0,
      chorus_phase |-> 0,
      sample_rate  |-> sample_rate ]

\* chorus_delay[i]
ChorusAt(chorus_delay, i) ==
    IF i < Len(chorus_delay) THEN chorus_delay[i + 1] ELSE 0

\* chorus_delay[i] = input
ChorusPut(chorus_delay, i, input) ==
    IF i < Len(chorus_delay) THEN [chorus_delay EXCEPT ![i + 1] = input]
    ELSE Append(chorus_delay, input)

\* the LFO phase after one sample: + 2 pi * 0.5 / sample_rate, wrapped at 2 pi
chorus_phase_next(fx) ==
    LET phase == fx.chorus_phase + TruncDiv(2 * Pi * 500, fx.sample_rate * Scale)
    IN  IF phase > 2 * Pi THEN phase - 2 * Pi ELSE phase

\* delay_offset = (lfo * 1000.0 + 2000.0) as usize
delay_offset(phase) == TruncDiv(Sin(phase) * 1000 + 2000 * Scale, Scale)

\* EffectsChain::process_chorus: the chain after the call, and
\* 0.7 * input + 0.3 * delayed
process_chorus(fx, input) ==
    LET phase == chorus_phase_next(fx)
        delayed_pos == (fx.chorus_pos + ChorusLen - delay_offset(phase)) % ChorusLen
        delayed == ChorusAt(fx.chorus_delay, delayed_pos)
    IN  [ effects |-> [fx EXCEPT !.chorus_phase = phase,
                                 !.chorus_delay = ChorusPut(fx.chorus_delay, fx.chorus_pos, input),
                                 !.chorus_pos = (fx.chorus_pos + 1) % ChorusLen],
          out |-> FAdd(FMul(700, input), FMul(300, delayed)) ]

\* EffectsChain::process: lowpass, chorus, reverb
EffectsChain_process(fx, input) ==
    Bind(OnePole_process(fx.lowpass, input),
         LAMBDA lowpass :
            Bind(process_chorus([fx EXCEPT !.lowpass = lowpass], lowpass.state),
                 LAMBDA chorus :
                    Bind(Reverb_process(chorus.effects.reverb, chorus.out),
                         LAMBDA with_reverb :
                            [ effects |-> [chorus.effects EXCEPT !.reverb = with_reverb.reverb],
                              out |-> with_reverb.out ])))

(* =============================== main.rs =============================== *)

\* the sample rate of the streams in a run of the callbacks
PipeSampleRate == 200

\* sample formats of a stream, of those dreamy() matches on
Formats == {"F32", "I16"}

\* stream configurations: sample format, input channels, output channels
StreamConfigs ==
    { [format |-> "F32", in_channels |-> 1, out_channels |-> 2],
      [format |-> "I16", in_channels |-> 2, out_channels |-> 1] }

\* values one channel of an input frame can carry, per format
ChannelSamples(format) == IF format = "F32" THEN {0, Scale} ELSE {0, 32767}

\* f32::from_sample(channel_sample): an i16 is divided by 32768
from_sample_in(format, channel_sample) ==
    IF format = "F32" THEN channel_sample
    ELSE TruncDiv(channel_sample * Scale, 32768)

\* T::from_sample(processed): for i16 the product with 32768, cast with
\* saturation (NaN casts to 0)
from_sample_out(format, processed) ==
    IF format = "F32" THEN processed
    ELSE IF processed = NaN THEN 0
    ELSE LET scaled == TruncDiv(processed * 32768, Scale)
         IN  IF scaled > 32767 THEN 32767
             ELSE IF scaled < -32768 THEN -32768 ELSE scaled

RECURSIVE SumChannels(_, _, _)
\* sample += f32::from_sample(channel_sample) over the first n channels
SumChannels(format, frame, n) ==
    IF n = 0 THEN 0
    ELSE SumChannels(format, frame, n - 1) + from_sample_in(format, frame[n])

\* the mono sample of an input frame: the channel average
mono_sample(format, frame) ==
    TruncDiv(SumChannels(format, frame, Len(frame)), Len(frame))

\* a send that replaces the oldest entry of a full channel
try_send_DropOldest(q, sample) ==
    IF Len(q) >= QueueCap THEN Append(Tail(q), sample) ELSE Append(q, sample)

\* tx.try_send(sample) with the result ignored: a full channel is left as it is
try_send(q, sample) ==
    IF Len(q) >= QueueCap THEN q ELSE Append(q, sample)

\* a receive that substitutes 1.0 on an empty channel
try_recv_or_One(q) == IF q = << >> THEN Scale ELSE Head(q)

\* rx.try_recv().unwrap_or(0.0)
try_recv_or(q) == IF q = << >> THEN 0 ELSE Head(q)

\* the channel after try_recv
after_recv(q) == IF q = << >> THEN q ELSE Tail(q)

\* `for channel in frame.iter_mut() { *channel = output_sample }`
fill_frame(channels, output_sample) == [c \in 1..channels |-> output_sample]

(* ========================= component runs ============================= *)

\* the components a specification does not exercise stay as constructed
AecBookIdle ==
    /\ aecLast = [op |-> "new", mic |-> 0, ref |-> 0, out |-> 0,
                  adapt |-> TRUE, afterReset |-> FALSE, learned |-> FALSE]
    /\ aecZeroRef = TRUE
    /\ aecReset = [pending |-> FALSE, learned |-> FALSE]
    /\ aecCalls = 0

AecIdle == aec = EchoCanceller_new(1, 500) /\ AecBookIdle

VadBookIdle ==
    /\ vadLast = [sample |-> 0, out |-> FALSE]
    /\ vadRun = [zeros |-> 0, tone |-> 0, seen |-> FALSE]

VadIdle == vad = VoiceActivityDetector_new(44100, 10) /\ VadBookIdle

BufIdle ==
    /\ gbuf = GrainBuffer_new(1)
    /\ gbufLast = [op |-> "new", position |-> 0, idx |-> 0, idx2 |-> 0, out |-> 0]

EngLastNew ==
    [op |-> "new", out |-> 0, due |-> FALSE, spawned |-> FALSE, peak |-> 0, active_count |-> 0]

EngBookIdle ==
    /\ engLast = EngLastNew
    /\ engRun = [calls |-> 0, writes |-> 0, silent |-> TRUE, panicked |-> FALSE]

EngIdle == engine = GranularEngine_new(500, 2, 0, 1) /\ EngBookIdle

PipeBookIdle ==
    /\ queue = << >>
    /\ pipe = [frames |-> 0, captures |-> 0]
    /\ pipeLast = [op |-> "start"]

PipeIdle == effects = EffectsChain_new_dreamy(PipeSampleRate) /\ PipeBookIdle

FxIdle == fxRun = [input |-> "none", n |-> 0, x |-> 0, out |-> 0]

TwinIdle ==
    /\ twin = GranularEngine_new(500, 2, 0, 1)
    /\ twinLast = EngLastNew

AecInit == AecStart /\ VadIdle /\ BufIdle /\ EngIdle /\ TwinIdle /\ PipeIdle /\ FxIdle

AecNext == AecProcess \/ AecResetCall \/ AecSetAdaptation \/ AecSetStepSize

SpecAEC == AecInit /\ [][AecNext]_vars

(* C3: while every reference sample passed since construction is 0, each   *)
(* process(mic, 0) call returns exactly mic, and all filter weights are 0  *)
(* after any call, with adaptation enabled or disabled.                    *)
AecZeroRefPassThrough ==
    aecZeroRef =>
        /\ AllZero(aec.filter_weights)
        /\ (aecLast.op = "process" => aecLast.out = aecLast.mic)

\* a second zero-reference process call, adaptation on, with a non-zero mic
AecZeroRefWitness ==
    /\ aecZeroRef
    /\ aecCalls >= 2
    /\ aecLast.op = "process"
    /\ aecLast.adapt
    /\ aecLast.mic # 0
    /\ aec.step_size > 0

(* C4: right after reset every filter weight and every reference-ring      *)
(* entry is 0, and the next process(mic, ref) call returns exactly mic     *)
(* for any ref.                                                            *)
AecResetClears ==
    /\ (aecReset.pending =>
            AllZero(aec.filter_weights) /\ AllZero(aec.reference_buffer))
    /\ (aecLast.op = "process" /\ aecLast.afterReset => aecLast.out = aecLast.mic)

\* reset was called with learned weights, a non-zero ring and a moved index,
\* and the following process call was given a non-zero reference
AecResetWitness ==
    /\ aecLast.op = "process"
    /\ aecLast.afterReset
    /\ aecLast.learned
    /\ aecLast.ref # 0
    /\ aecLast.mic # 0

(* ---- SpecVAD: a fresh detector at 44100 Hz fed zeros, then 0.5 -------- *)

\* thresholds: 1e-4 (main.rs, scenario S2) and 1e-3 (the unit tests)
VadThresholds == {10, 100}

\* the constant amplitude fed after the onset: 0.5
ToneLevel == 500

\* samples after the onset within which the detector must have fired
OnsetLatency == 100

VadStart ==
    /\ \E th \in VadThresholds : vad = VoiceActivityDetector_new(44100, th)
    /\ vadLast = [sample |-> 0, out |-> FALSE]
    /\ vadRun = [zeros |-> 0, tone |-> 0, seen |-> FALSE]

\* one more sample of the all-zero prefix
VadFeedSilence ==
    /\ UNCHANGED notVad
    /\ vadRun.tone = 0
    /\ vadRun.zeros < MaxSilence
    /\ LET r == VoiceActivityDetector_process(vad, 0)
       IN  /\ vad' = r.vad
           /\ vadLast' = [sample |-> 0, out |-> r.out]
           /\ vadRun' = [vadRun EXCEPT !.zeros = @ + 1]

\* one more sample of the constant 0.5 run
VadFeedTone ==
    /\ UNCHANGED notVad
    /\ vadRun.tone < MaxTone
    /\ LET r == VoiceActivityDetector_process(vad, ToneLevel)
       IN  /\ vad' = r.vad
           /\ vadLast' = [sample |-> ToneLevel, out |-> r.out]
           /\ vadRun' = [vadRun EXCEPT !.tone = @ + 1, !.seen = @ \/ r.out]

VadInit == VadStart /\ AecIdle /\ BufIdle /\ EngIdle /\ TwinIdle /\ PipeIdle /\ FxIdle

VadNext == VadFeedSilence \/ VadFeedTone

SpecVAD == VadInit /\ [][VadNext]_vars

(* C9: a fresh detector at 44100 Hz returns false on every sample of an    *)
(* all-zero prefix and keeps energy 0; once the input is constant 0.5 it   *)
(* has returned true by the 100th sample and returns true on every sample  *)
(* of the run after its first detection.                                   *)
VadSilenceThenOnset ==
    /\ (vadRun.tone = 0 => vad.energy = 0 /\ ~vadLast.out)
    /\ (vadRun.tone >= OnsetLatency => vadRun.seen)
    /\ (vadRun.seen => vadLast.out)

\* the 100th sample of a run that followed a non-empty all-zero prefix
VadOnsetWitness ==
    /\ vadRun.zeros >= 2
    /\ vadRun.tone = OnsetLatency
    /\ vadLast.out
    /\ vad.energy > vad.threshold

(* ---- SpecBuf: one GrainBuffer, written and read at k and k + 0.5 ------ *)

BufStart ==
    /\ \E c \in 1..MaxCapacity : gbuf = GrainBuffer_new(c)
    /\ gbufLast = [op |-> "new", position |-> 0, idx |-> 0, idx2 |-> 0, out |-> 0]

BufWrite ==
    /\ UNCHANGED notBuf
    /\ \E x \in Samples :
         /\ gbuf' = GrainBuffer_write(gbuf, x)
         /\ gbufLast' = [op |-> "write", position |-> 0, idx |-> 0, idx2 |-> 0, out |-> x]

BufRead ==
    /\ UNCHANGED notBuf
    /\ \E k \in (-MaxReadPos)..MaxReadPos, half \in {0, Scale \div 2} :
         LET position == k * Scale + half
         IN  gbufLast' = [op |-> "read", position |-> position,
                          idx |-> ReadIdx(gbuf, position),
                          idx2 |-> ReadIdx2(gbuf, position),
                          out |-> GrainBuffer_read(gbuf, position)]
    /\ UNCHANGED gbuf

BufInit == BufStart /\ AecIdle /\ VadIdle /\ EngIdle /\ TwinIdle /\ PipeIdle /\ FxIdle

BufNext == BufWrite \/ BufRead

SpecBuf == BufInit /\ [][BufNext]_vars

\* floor(position) as an integer sample index k
FloorPos(position) == position \div Scale

(* C10: for every integer k, negative or beyond the capacity included,    *)
(* read(k) is the sample stored at k mod C and read(k + 0.5) is the mean  *)
(* of the samples at k mod C and (k + 1) mod C; both indices a read uses  *)
(* lie in [0, C).                                                          *)
BufReadInterpolates ==
    gbufLast.op = "read" =>
        LET k == FloorPos(gbufLast.position)
            C == gbuf.capacity
        IN  /\ gbufLast.idx \in 0..(C - 1)
            /\ gbufLast.idx2 \in 0..(C - 1)
            /\ (gbufLast.position = k * Scale =>
                    gbufLast.out = gbuf.buffer[k % C])
            /\ (gbufLast.position # k * Scale =>
                    2 * gbufLast.out = gbuf.buffer[k % C] + gbuf.buffer[(k + 1) % C])

\* a half-way read at a negative position whose neighbour wraps from C-1 to 0,
\* between two different stored samples
BufReadWitness ==
    /\ gbufLast.op = "read"
    /\ gbufLast.position < 0
    /\ gbufLast.position % Scale # 0
    /\ gbuf.capacity >= 2
    /\ gbufLast.idx = gbuf.capacity - 1
    /\ gbufLast.idx2 = 0
    /\ gbuf.buffer[gbufLast.idx] # gbuf.buffer[0]
    /\ gbuf.buffer[0] # 0

(* ---- SpecEngine: one GranularEngine, any interleaving of its calls ---- *)

\* the sample rate of SpecEngine, Hz (small, so that grains last a few samples)
EngSampleRate == 500
\* buffer_size_ms of SpecEngine: a capacity of 4 samples
EngBufferMs == 8

\* values assigned to the public parameters after construction:
\* grain_size_ms 1, 2 and 6 are grains of 0, 1 and 3 samples, grain_density
\* 1000 and 100 are a grain every 0.5 and every 5 samples
EngSettings ==
    [ grain_size_ms    : {1, 2, 6},
      grain_density    : {100, 1000},
      pitch_shift      : {Scale},
      pitch_randomness : {0, 120},
      time_randomness  : {0, 600} ]

EngStart ==
    /\ \E m \in 0..MaxGrains, p \in EngSettings :
         engine = [GranularEngine_new(EngSampleRate, EngBufferMs, m, 1) EXCEPT
                      !.grain_size_ms = p.grain_size_ms,
                      !.grain_density = p.grain_density,
                      !.pitch_shift = p.pitch_shift,
                      !.pitch_randomness = p.pitch_randomness,
                      !.time_randomness = p.time_randomness]
    /\ engLast = EngLastNew
    /\ engRun = [calls |-> 0, writes |-> 0, silent |-> TRUE, panicked |-> FALSE]

EngWriteInput ==
    /\ UNCHANGED notEng
    /\ ~engRun.panicked
    /\ engRun.calls < MaxEngCalls
    /\ \E x \in {0, 500} :
         /\ engine' = write_input(engine, x)
         /\ engRun' = [engRun EXCEPT !.calls = @ + 1, !.writes = @ + 1,
                                     !.silent = @ /\ x = 0]
    /\ engLast' = [engLast EXCEPT !.op = "write_input"]

EngProcess ==
    /\ UNCHANGED notEng
    /\ ~engRun.panicked
    /\ engRun.calls < MaxEngCalls
    /\ \E u_look \in DrawsFor(engine), u_pitch \in DrawsFor(engine),
          u_time \in DrawsFor(engine) :
         \E r \in {GranularEngine_process(engine, u_look, u_pitch, u_time)} :
             /\ engine' = r.engine
             /\ engLast' = [op |-> "process", out |-> r.out, due |-> r.due,
                            spawned |-> r.spawned, peak |-> r.peak,
                            active_count |-> r.active_count]
             /\ engRun' = [engRun EXCEPT !.calls = @ + 1, !.panicked = r.panic]

EngInit == EngStart /\ AecIdle /\ VadIdle /\ BufIdle /\ TwinIdle /\ PipeIdle /\ FxIdle

EngNext == EngWriteInput \/ EngProcess

SpecEngine == EngInit /\ [][EngNext]_vars

(* C1: the grain collection never holds more than max_grains grains,      *)
(* neither between calls nor inside process() after the spawn step and    *)
(* before compaction, for every parameter setting and call interleaving.  *)
EngGrainCap ==
    /\ Len(engine.grains) <= engine.max_grains
    /\ engLast.peak <= engine.max_grains

\* a process() call whose countdown was due while the collection was full,
\* so that the spawn was suppressed at the cap
EngGrainCapWitness ==
    /\ engLast.op = "process"
    /\ engine.max_grains >= 1
    /\ engLast.due
    /\ ~engLast.spawned
    /\ engLast.peak = engine.max_grains
    /\ ~engRun.panicked

(* C8: while every sample written since construction is 0, every          *)
(* process() call of an engine whose grains last at least one sample      *)
(* returns exactly 0, whatever the draws, the number of overlapping       *)
(* grains and the 1/sqrt(k) normalisation.                                *)
EngSilenceInSilenceOut ==
    (/\ engRun.silent
     /\ grain_size_samples(engine) >= 1
     /\ engLast.op = "process"
     /\ ~engRun.panicked)
        => engLast.out = 0

\* silence was written, two grains overlapped in the last call (the mix was
\* divided by sqrt(2)) and one of them was past its first sample, where the
\* envelope is not 0
EngSilenceWitness ==
    /\ engRun.silent
    /\ engRun.writes >= 1
    /\ engLast.op = "process"
    /\ ~engRun.panicked
    /\ engLast.active_count >= 2
    /\ \E i \in 1..Len(engine.grains) :
          /\ engine.grains[i].current_pos >= 2
          /\ Hann(TruncDiv((engine.grains[i].current_pos - 1) * Scale,
                           engine.grains[i].length)) > 0

\* the grains of a collection that one more process() call does not finish
Unfinished(grains) ==
    {i \in 1..Len(grains) : grains[i].current_pos + 1 < grains[i].length}

(* C15: a grain of length l >= 1 contributes to exactly l consecutive     *)
(* process() calls, the spawning call first: every call that returns      *)
(* counts every grain held after its spawn step, advances each by one     *)
(* sample, and its compaction removes exactly the grains whose            *)
(* current_pos reached their length; so between calls every grain is      *)
(* active with 1 <= current_pos < length.                                 *)
GrainLifecycle ==
    [][ (/\ engLast'.op = "process"
         /\ ~engRun'.panicked
         /\ grain_size_samples(engine) >= 1)
        => LET before == engine.grains
               after  == engine'.grains
               born   == IF engLast'.spawned THEN 1 ELSE 0
               stays  == IF engLast'.spawned /\ grain_size_samples(engine) > 1
                         THEN 1 ELSE 0
           IN  /\ engLast'.active_count = Len(before) + born
               /\ Len(after) = Cardinality(Unfinished(before)) + stays
               /\ \A j \in 1..Len(after) :
                     /\ after[j].active
                     /\ after[j].current_pos >= 1
                     /\ after[j].current_pos < after[j].length
               /\ \A i \in Unfinished(before) :
                     \E j \in 1..Len(after) :
                        after[j] = [before[i] EXCEPT !.current_pos = @ + 1]
               /\ stays = 1 => after[Len(after)].current_pos = 1 ]_vars

\* two grains of three samples overlapped in the last call: the older one
\* made its third contribution and was removed by the compaction of that
\* call, the younger one is kept with one sample left
GrainLifecycleWitness ==
    /\ engLast.op = "process"
    /\ ~engRun.panicked
    /\ grain_size_samples(engine) = 3
    /\ engLast.active_count = 2
    /\ Len(engine.grains) = 1
    /\ engine.grains[1].current_pos = 2

\* delta = interval * time_randomness
spawn_delta(g) == Mul(spawn_interval(g), g.time_randomness)

(* C16: a process() call whose countdown is <= 0 while the collection     *)
(* holds max_grains grains spawns nothing; no call spawns more than one   *)
(* grain; and a call whose countdown is <= 0 while there is room spawns   *)
(* exactly one grain and resets the countdown to a value in               *)
(* [interval - delta, interval + delta).                                  *)
SpawnWhenRoom ==
    [][ engLast'.op = "process"
        => LET timer == engine.time_until_next_grain - Scale
               room  == Len(engine.grains) < engine.max_grains
               lo    == spawn_interval(engine) - spawn_delta(engine)
               hi    == spawn_interval(engine) + spawn_delta(engine)
           IN  /\ engLast'.peak <= Len(engine.grains) + 1
               /\ (timer <= 0 /\ ~room)
                     => (~engLast'.spawned /\ engLast'.peak = Len(engine.grains))
               /\ (timer <= 0 /\ room)
                     => /\ engLast'.spawned
                        /\ engLast'.peak = Len(engine.grains) + 1
                        /\ lo <= engine'.time_until_next_grain
                        /\ engine'.time_until_next_grain < hi ]_vars

(* C17: with pitch_randomness = 0 or time_randomness = 0 every process()  *)
(* call still completes without failing.                                  *)
ZeroRandomnessCompletes ==
    (/\ engLast.op = "process"
     /\ (engine.pitch_randomness = 0 \/ engine.time_randomness = 0))
        => ~engRun.panicked

(* C19: every grain the engine spawns has a length of at least one        *)
(* sample, whatever grain_size_ms and the sample rate are, so no call     *)
(* that returns yields the NaN of a window phase computed as 0 / 0.       *)
SpawnedLengthPositive ==
    (engLast.op = "process" /\ engLast.spawned /\ ~engRun.panicked)
        => (grain_size_samples(engine) >= 1 /\ engLast.out # NaN)

\* the number of writes made since the sample at the index of a read
\* position was written: 0 for the newest sample, capacity - 1 for the
\* oldest, the one at the write index
SampleAge(b, position) == (b.write_pos - 1 - ReadIdx(b, position)) % b.capacity

\* the position falls on one of the capacity / 2 newest samples
InLastHalf(b, position) == 2 * SampleAge(b, position) < b.capacity

(* C18: at every tick of its life a grain reads within the last half of   *)
(* the buffer: the position start_pos + current_pos * pitch it read in    *)
(* the last process() call falls on one of the C / 2 samples written most *)
(* recently before the write index, once samples have been written.      *)
GrainReadsLastHalf ==
    (engLast.op = "process" /\ ~engRun.panicked /\ engRun.writes >= 1)
        => \A i \in 1..Len(engine.grains) :
              InLastHalf(engine.buffer,
                         engine.grains[i].start_pos
                           + (engine.grains[i].current_pos - 1) * engine.grains[i].pitch)

(* ---- SpecTwin: two engines built with the same arguments, fed alike --- *)

\* seeds rand::rng() can hand to StdRng::from_rng
Seeds == {1, 2}

\* the parameters both engines are given after construction
TwinSettings ==
    [ grain_size_ms    : {6},
      grain_density    : {100, 1000},
      pitch_shift      : {Scale},
      pitch_randomness : {120},
      time_randomness  : {600} ]

\* one engine of the pair: new() draws its seed, then the fields are assigned
TwinEngine(m, p, seed) ==
    [GranularEngine_new(EngSampleRate, EngBufferMs, m, seed) EXCEPT
        !.grain_size_ms = p.grain_size_ms,
        !.grain_density = p.grain_density,
        !.pitch_shift = p.pitch_shift,
        !.pitch_randomness = p.pitch_randomness,
        !.time_randomness = p.time_randomness]

TwinStart ==
    /\ \E m \in 1..MaxGrains, p \in TwinSettings, sa \in Seeds, sb \in Seeds :
         /\ engine = TwinEngine(m, p, sa)
         /\ twin = TwinEngine(m, p, sb)
    /\ twinLast = EngLastNew
    /\ EngBookIdle

\* the three values one process() call can take from the rng: both ends of
\* the unit interval for each draw
TwinDrawsFor(g) ==
    IF should_spawn(g, g.time_until_next_grain - Scale)
    THEN {0, 999} \X {0, 999} \X {0, 999}
    ELSE {<<0, 0, 0>>}

\* the same sample is written to both engines
TwinWriteInput ==
    /\ UNCHANGED notTwin
    /\ engRun.calls < MaxTwinCalls
    /\ \E x \in {0, 500} :
         /\ engine' = write_input(engine, x)
         /\ twin' = write_input(twin, x)
         /\ engRun' = [engRun EXCEPT !.calls = @ + 1, !.writes = @ + 1,
                                     !.silent = @ /\ x = 0]
    /\ engLast' = [engLast EXCEPT !.op = "write_input"]
    /\ twinLast' = [twinLast EXCEPT !.op = "write_input"]

\* process() is called on both engines; each rng yields its own draws, which
\* are the same when both streams start from the same seed
TwinProcess ==
    /\ UNCHANGED notTwin
    /\ engRun.calls < MaxTwinCalls
    /\ \E ua \in TwinDrawsFor(engine), ub \in TwinDrawsFor(twin) :
         /\ engine.rng = twin.rng => ua = ub
         /\ \E ra \in {GranularEngine_process(engine, ua[1], ua[2], ua[3])},
               rb \in {GranularEngine_process(twin, ub[1], ub[2], ub[3])} :
              /\ engine' = ra.engine
              /\ twin' = rb.engine
              /\ engLast' = [op |-> "process", out |-> ra.out, due |-> ra.due,
                             spawned |-> ra.spawned, peak |-> ra.peak,
                             active_count |-> ra.active_count]
              /\ twinLast' = [op |-> "process", out |-> rb.out, due |-> rb.due,
                              spawned |-> rb.spawned, peak |-> rb.peak,
                              active_count |-> rb.active_count]
              /\ engRun' = [engRun EXCEPT !.calls = @ + 1]

TwinInit == TwinStart /\ AecIdle /\ VadIdle /\ BufIdle /\ PipeIdle /\ FxIdle

TwinNext == TwinWriteInput \/ TwinProcess

SpecTwin == TwinInit /\ [][TwinNext]_vars

(* C7: two engines built with the same sample rate, buffer size,          *)
(* max_grains and parameters and fed the same write_input sequence        *)
(* return the same process() outputs and hold the same grains.  (The      *)
(* "same fixed seed" of the claim is not something a caller can ask for:  *)
(* new() seeds each engine from entropy.)                                  *)
TwinSameOutputs ==
    /\ engLast.out = twinLast.out
    /\ engine.grains = twin.grains
    /\ engine.time_until_next_grain = twin.time_until_next_grain

(* ---- Spec: the dreamy capture and playback callbacks ------------------ *)

\* build_output_stream up to the stream's creation, and the empty channel.
\* The filter has MaxFilterLen taps here (1024 in dreamy).
PipeStart ==
    /\ aec = EchoCanceller_new(MaxFilterLen, 500)
    /\ vad = VoiceActivityDetector_new(PipeSampleRate, 10)
    /\ engine = configure_engine(GranularEngine_new(PipeSampleRate, 2000, 64, 1))
    /\ effects = EffectsChain_new_dreamy(PipeSampleRate)
    /\ queue = << >>
    /\ \E cfg \in StreamConfigs :
         pipe = [ format |-> cfg.format,
                  in_channels |-> cfg.in_channels,
                  out_channels |-> cfg.out_channels,
                  previous_speaker_output |-> 0,
                  captures |-> 0,          \* input frames handled
                  frames |-> 0,            \* output frames handled
                  captured |-> << >>,      \* every mono sample computed, in order
                  queue_ids |-> << >>,     \* for each queue entry, its index in captured
                  received |-> << >>,      \* indices in captured of the samples dequeued
                  received_samples |-> << >>,
                  last_processed |-> 0 ]   \* processed of the frame before, 0.0 at first
    /\ pipeLast = [op |-> "start"]

\* one input frame of the capture callback
CaptureFrame ==
    /\ UNCHANGED notPipe
    /\ UNCHANGED <<aec, vad, engine, effects>>
    /\ pipe.captures < MaxCaptures
    /\ \E frame \in [1..pipe.in_channels -> ChannelSamples(pipe.format)] :
         \E sample \in {mono_sample(pipe.format, frame)} :
            /\ queue' = try_send(queue, sample)
            /\ pipe' = [pipe EXCEPT
                           !.captures = @ + 1,
                           !.captured = Append(@, sample),
                           !.queue_ids = try_send(@, Len(pipe.captured) + 1)]
            /\ pipeLast' = [ op |-> "capture",
                             sample |-> sample,
                             was_full |-> (Len(queue) >= QueueCap),
                             queue_before |-> queue ]

\* the draws one process() call of the callback's engine can take
FrameDraws(g) ==
    IF should_spawn(g, g.time_until_next_grain - Scale)
    THEN {0, 999} \X {0, 999} \X {0, 999}
    ELSE {<<0, 0, 0>>}

\* one output frame of the playback callback.  A frame whose engine.process()
\* panics writes nothing; with the dreamy preset no range is empty.
PlaybackFrame ==
    /\ UNCHANGED notPipe
    /\ pipe.frames < MaxFrames
    /\ \E u \in FrameDraws(engine) :
       \E input_sample \in {try_recv_or(queue)} :
       \E a \in {EchoCanceller_process(aec, input_sample, pipe.previous_speaker_output)} :
       \E v \in {VoiceActivityDetector_process(vad, Abs(pipe.previous_speaker_output))} :
       \E g \in {GranularEngine_process(write_input(engine, a.out), u[1], u[2], u[3])} :
       \E e \in {EffectsChain_process(effects, g.out)} :
          /\ ~g.panic
          /\ queue' = after_recv(queue)
          /\ aec' = set_adaptation_enabled(a.aec, v.out)
          /\ vad' = v.vad
          /\ engine' = g.engine
          /\ effects' = e.effects
          /\ pipe' = [pipe EXCEPT
                         !.frames = @ + 1,
                         !.queue_ids = after_recv(@),
                         !.received = IF queue = << >> THEN @
                                      ELSE Append(@, Head(pipe.queue_ids)),
                         !.received_samples = IF queue = << >> THEN @
                                              ELSE Append(@, input_sample),
                         !.last_processed = e.out]
          /\ pipeLast' = [ op |-> "playback",
                           n |-> pipe.frames,
                           was_empty |-> (queue = << >>),
                           input_sample |-> input_sample,
                           reference |-> pipe.previous_speaker_output,
                           vad_input |-> Abs(pipe.previous_speaker_output),
                           speaker_active |-> v.out,
                           adapting |-> aec.adaptation_enabled,
                           echo_cancelled |-> a.out,
                           granular_output |-> g.out,
                           processed |-> e.out,
                           processed_before |-> pipe.last_processed,
                           frame |-> fill_frame(pipe.out_channels,
                                                from_sample_out(pipe.format, e.out)) ]

Init ==
    PipeStart /\ AecBookIdle /\ VadBookIdle /\ BufIdle /\ EngBookIdle /\ TwinIdle /\ FxIdle

Next == CaptureFrame \/ PlaybackFrame

Spec == Init /\ [][Next]_vars

(* C2: in every output frame n >= 1 the reference passed to               *)
(* EchoCanceller::process, and the value whose magnitude the VAD is       *)
(* given, is the processed value of frame n-1; in frame 0 it is 0.0.      *)
ReferenceIsPreviousOutput ==
    pipeLast.op = "playback" =>
        /\ pipeLast.reference = pipeLast.processed_before
        /\ pipeLast.vad_input = Abs(pipeLast.processed_before)

(* C14: in every output frame, the first included, the canceller runs its *)
(* weight update only if the VAD, applied in that same frame to the       *)
(* magnitude of the reference the canceller is given, returns true.       *)
AdaptationGatedByVad ==
    pipeLast.op = "playback" =>
        (pipeLast.adapting => pipeLast.speaker_active)

(* C20: in the output callback previous_speaker_output is 0.0 on every   *)
(* frame; so every frame writes to the granular buffer the very sample    *)
(* it pulled from the queue (0.0 when the queue was empty), every filter  *)
(* weight stays 0, the VAD returns false on every frame, and adaptation   *)
(* is disabled from the second frame onward.                              *)
EchoPathInert ==
    /\ pipe.previous_speaker_output = 0
    /\ AllZero(aec.filter_weights)
    /\ pipeLast.op = "playback"
          => /\ pipeLast.reference = 0
             /\ pipeLast.echo_cancelled = pipeLast.input_sample
             /\ engine.buffer.buffer[(engine.buffer.write_pos - 1)
                                        % engine.buffer.capacity]
                   = pipeLast.input_sample
             /\ ~pipeLast.speaker_active
             /\ ~aec.adaptation_enabled
             /\ pipeLast.n >= 1 => ~pipeLast.adapting

\* a frame after the first pulled a non-zero sample from the queue, passed
\* it through the canceller unchanged and did not adapt
EchoPathInertWitness ==
    /\ pipeLast.op = "playback"
    /\ pipeLast.n >= 1
    /\ ~pipeLast.was_empty
    /\ pipeLast.input_sample # 0
    /\ pipeLast.echo_cancelled = pipeLast.input_sample
    /\ ~pipeLast.adapting

\* the stages of one output frame, from the state before it: the value that
\* reaches the channels when each stage runs once on the result of the one
\* before it, and the components after it
FrameOf(u) ==
    LET input_sample == IF queue = << >> THEN 0 ELSE Head(queue)
        a == EchoCanceller_process(aec, input_sample, pipe.previous_speaker_output)
        g == GranularEngine_process(write_input(engine, a.out), u[1], u[2], u[3])
        e == EffectsChain_process(effects, g.out)
    IN  [ input_sample |-> input_sample,
          reference_buffer |-> a.aec.reference_buffer,
          buffer_pos |-> a.aec.buffer_pos,
          filter_weights |-> a.aec.filter_weights,
          engine |-> g.engine,
          effects |-> e.effects,
          processed |-> e.out ]

(* C5: an output frame takes at most one sample from the queue, and does  *)
(* so whether or not one is there; with the queue empty its input is      *)
(* 0.0; the canceller, the buffer write, the engine and the effects each  *)
(* run once, each on the result of the one before; every channel of the   *)
(* frame gets the same value, the converted result of the effects.        *)
PlaybackFrameOnce ==
    [][pipe'.frames = pipe.frames + 1 =>
        /\ queue' = IF queue = << >> THEN queue ELSE Tail(queue)
        /\ pipeLast'.input_sample = (IF queue = << >> THEN 0 ELSE Head(queue))
        /\ \E u \in FrameDraws(engine) :
             \E f \in {FrameOf(u)} :
                /\ aec'.reference_buffer = f.reference_buffer
                /\ aec'.buffer_pos = f.buffer_pos
                /\ aec'.filter_weights = f.filter_weights
                /\ engine' = f.engine
                /\ effects' = f.effects
                /\ pipeLast'.processed = f.processed
                /\ Len(pipeLast'.frame) = pipe.out_channels
                /\ \A c \in 1..pipe.out_channels :
                      pipeLast'.frame[c] = from_sample_out(pipe.format, f.processed)
    ]_vars

\* an output frame found the queue empty, another took a sample from it, and
\* a frame of two channels carried a value other than 0
PlaybackFrameWitness ==
    /\ pipeLast.op = "playback"
    /\ pipe.frames >= 3
    /\ Len(pipe.received) >= 1
    /\ Len(pipe.received) < pipe.frames
    /\ Len(pipeLast.frame) = 2
    /\ pipeLast.frame[1] # 0

\* the indices in s increase strictly
Increasing(s) == \A i \in 1..Len(s) - 1 : s[i] < s[i + 1]

(* C6: the queue never holds more than its capacity; an input frame is    *)
(* always handled, full queue or not; a sample offered to a full queue is *)
(* dropped and the queue is as before; a sample offered otherwise is      *)
(* appended; the samples dequeued are captured samples in capture order.  *)
QueueBoundedLossy ==
    /\ Len(queue) <= QueueCap
    /\ pipe.captures < MaxCaptures => ENABLED CaptureFrame
    /\ pipeLast.op = "capture" =>
          IF pipeLast.was_full
          THEN queue = pipeLast.queue_before
          ELSE queue = Append(pipeLast.queue_before, pipeLast.sample)
    /\ Increasing(pipe.received)
    /\ \A i \in 1..Len(pipe.received) :
          /\ pipe.received[i] \in 1..Len(pipe.captured)
          /\ pipe.received_samples[i] = pipe.captured[pipe.received[i]]

\* a sample was dropped at a full queue, and the playback callback has
\* received the one captured before it and the one captured after it
QueueLossWitness ==
    /\ pipe.captures - Len(pipe.received) - Len(queue) >= 1
    /\ \E i \in 1..Len(pipe.received) - 1 :
          /\ pipe.received[i + 1] > pipe.received[i] + 1
          /\ pipe.received_samples[i + 1] # pipe.received_samples[i]

(* ---- SpecFx: one dreamy EffectsChain fed sequences of full-scale samples *)

\* input sequences with |x| <= 1: a constant, an alternation, and one whose
\* signs follow the delays of the combs and all-passes at PipeSampleRate;
\* Hi and Lo are +1.0 and -1.0
FxInputs ==
    LET Hi == Scale
        Lo == -Scale
    IN
    [ dc        |-> [i \in 1..MaxFxSamples |-> Hi],
      alternate |-> [i \in 1..MaxFxSamples |-> IF i % 2 = 1 THEN Hi ELSE Lo],
      resonant  |-> << Hi, Hi, Lo, Hi, Hi, Hi, Hi, Lo, Hi, Hi,
                       Hi, Hi, Lo, Lo, Hi, Hi, Lo, Lo, Hi, Lo,
                       Lo, Hi, Lo, Lo, Hi, Lo, Lo, Lo, Lo, Hi,
                       Hi, Hi, Lo, Lo, Hi, Hi, Hi, Hi, Hi, Hi >> ]

FxStart ==
    /\ effects = EffectsChain_new_dreamy(PipeSampleRate)
    /\ \E name \in DOMAIN FxInputs : fxRun = [input |-> name, n |-> 0, x |-> 0, out |-> 0]

\* EffectsChain::process on the next sample of the sequence
FxProcess ==
    /\ UNCHANGED notFx
    /\ fxRun.n < MaxFxSamples
    /\ fxRun.n < Len(FxInputs[fxRun.input])
    /\ \E x \in {FxInputs[fxRun.input][fxRun.n + 1]} :
       \E e \in {EffectsChain_process(effects, x)} :
          /\ effects' = e.effects
          /\ fxRun' = [fxRun EXCEPT !.n = @ + 1, !.x = x, !.out = e.out]

FxInit ==
    FxStart /\ AecIdle /\ VadIdle /\ BufIdle /\ EngIdle /\ TwinIdle /\ PipeBookIdle

FxNext == FxProcess

SpecFx == FxInit /\ [][FxNext]_vars

(* C11: for inputs with |x| <= 1 at every sample, the magnitude of every   *)
(* EffectsChain::process output is at most 4.                              *)
FxOutputBounded ==
    (fxRun.n >= 1 /\ Abs(fxRun.x) <= Scale) => Abs(fxRun.out) <= 4 * Scale

(* ---- SpecAnyLen: EchoCanceller::new with any filter_length, then process *)

\* EchoCanceller::new takes any usize, 0 included
AnyLenStart ==
    /\ \E L \in 0..MaxFilterLen, s \in StepSizes : aec = EchoCanceller_new(L, s)
    /\ AecBookIdle

\* EchoCanceller::process on whatever new() returned
AnyLenProcess ==
    /\ aecCalls < MaxAecCalls
    /\ UNCHANGED notAec
    /\ \E mic \in Samples, ref \in Samples :
         IF process_panics(aec)
         THEN /\ aecLast' = [aecLast EXCEPT !.op = "process panicked",
                                            !.mic = mic, !.ref = ref]
              /\ UNCHANGED aec
         ELSE \E r \in {EchoCanceller_process(aec, mic, ref)} :
                 /\ aec' = r.aec
                 /\ aecLast' = [aecLast EXCEPT !.op = "process", !.mic = mic,
                                               !.ref = ref, !.out = r.out,
                                               !.adapt = aec.adaptation_enabled]
    /\ aecCalls' = aecCalls + 1
    /\ UNCHANGED <<aecZeroRef, aecReset>>

AnyLenInit ==
    AnyLenStart /\ VadIdle /\ BufIdle /\ EngIdle /\ TwinIdle /\ PipeIdle /\ FxIdle

AnyLenNext == AnyLenProcess

SpecAnyLen == AnyLenInit /\ [][AnyLenNext]_vars

(* C12: no process() call fails on a canceller new() has returned: there  *)
(* is none whose ring is empty, new() having rejected a length of 0.      *)
AecNeverFails == aecLast.op # "process panicked"

(* ---- SpecRing: one EchoCanceller, with the references it was given ----- *)

\* aecLast here: L the length given to new(); n the process calls so far;
\* refs the references passed since construction or the last reset, the
\* latest first; before the weights when the last process call began
RingStart ==
    /\ \E L \in 1..MaxRingLen, s \in {500, 1000} :
         /\ aec = EchoCanceller_new(L, s)
         /\ aecLast = [ op |-> "new", L |-> L, n |-> 0, refs |-> << >>,
                        mic |-> 0, out |-> 0, adapt |-> TRUE,
                        before |-> Zeros(L) ]
    /\ aecZeroRef = TRUE
    /\ aecReset = [pending |-> FALSE, learned |-> FALSE]
    /\ aecCalls = 0

RingProcess ==
    /\ aecCalls < MaxAecCalls
    /\ UNCHANGED notAec
    /\ \E mic \in {0, 500}, ref \in Samples :
         \E r \in {EchoCanceller_process(aec, mic, ref)} :
            /\ aec' = r.aec
            /\ aecLast' = [aecLast EXCEPT !.op = "process",
                                          !.n = @ + 1,
                                          !.refs = <<ref>> \o @,
                                          !.mic = mic,
                                          !.out = r.out,
                                          !.adapt = aec.adaptation_enabled,
                                          !.before = aec.filter_weights]
    /\ aecCalls' = aecCalls + 1
    /\ UNCHANGED <<aecZeroRef, aecReset>>

RingReset ==
    /\ aecCalls < MaxAecCalls
    /\ UNCHANGED notAec
    /\ aec' = EchoCanceller_reset(aec)
    /\ aecLast' = [aecLast EXCEPT !.op = "reset", !.refs = << >>]
    /\ aecCalls' = aecCalls + 1
    /\ UNCHANGED <<aecZeroRef, aecReset>>

RingSetAdaptation ==
    /\ aecCalls < MaxAecCalls
    /\ UNCHANGED notAec
    /\ aec' = set_adaptation_enabled(aec, ~aec.adaptation_enabled)
    /\ aecLast' = [aecLast EXCEPT !.op = "set_adaptation_enabled"]
    /\ aecCalls' = aecCalls + 1
    /\ UNCHANGED <<aecZeroRef, aecReset>>

RingInit ==
    RingStart /\ VadIdle /\ BufIdle /\ EngIdle /\ TwinIdle /\ PipeIdle /\ FxIdle

RingNext == RingProcess \/ RingReset \/ RingSetAdaptation

SpecRing == RingInit /\ [][RingNext]_vars

\* the reference passed i calls before the last one, 0.0 when there was none
\* since construction or reset
RefAgo(i) == IF i < Len(aecLast.refs) THEN aecLast.refs[i + 1] ELSE 0

RECURSIVE Convolution(_)
\* the sum over i < k of W[i] * ref_(n-i), W the weights before the call
Convolution(k) ==
    IF k = 0 THEN 0
    ELSE Convolution(k - 1) + Mul(aecLast.before[k - 1], RefAgo(k - 1))

RECURSIVE RefPower(_)
\* the sum over i < k of ref_(n-i)^2
RefPower(k) ==
    IF k = 0 THEN 0 ELSE RefPower(k - 1) + RefAgo(k - 1) * RefAgo(k - 1)

(* C13: after n process calls the ring index is n mod L and both vectors  *)
(* have length L; the n-th call returns mic_n minus the sum over i < L of *)
(* W[i] * ref_(n-i), ref_(n-i) being the reference passed i calls earlier *)
(* (0 before construction or since reset); the weight update adds to W[i] *)
(* the NLMS step times the same ref_(n-i), and happens only when adapting. *)
RingConvolution ==
    /\ aec.buffer_pos = aecLast.n % aecLast.L
    /\ DOMAIN aec.filter_weights = 0..(aecLast.L - 1)
    /\ DOMAIN aec.reference_buffer = 0..(aecLast.L - 1)
    /\ aecLast.op = "process" =>
          /\ aecLast.out = aecLast.mic - Convolution(aecLast.L)
          /\ \A i \in 0..(aecLast.L - 1) :
                aec.filter_weights[i] =
                    IF aecLast.adapt
                    THEN aecLast.before[i]
                         + TruncDiv(aec.step_size * aecLast.out * RefAgo(i),
                                    RefPower(aecLast.L) + Regularization)
                    ELSE aecLast.before[i]

\* a call on a filter of three taps with learned weights, after three
\* references of which the latest and the oldest differ, while adapting
RingWitness ==
    /\ aecLast.op = "process"
    /\ aecLast.L = 3
    /\ aecLast.adapt
    /\ Len(aecLast.refs) >= 3
    /\ aecLast.refs[1] # 0
    /\ aecLast.refs[3] # 0
    /\ aecLast.refs[1] # aecLast.refs[3]
    /\ aecLast.before[0] # 0
    /\ aecLast.before[2] # 0
    /\ aecLast.before[0] # aecLast.before[2]
    /\ aecLast.out # aecLast.mic

====
